---- MODULE Spec2Model ----
(***************************************************************************)
(* Model of client/src/components/Map.tsx: the MapView React component.    *)
(*                                                                         *)
(* Coordinates are integers counting thousandths of a degree, so the       *)
(* source's threshold (15 - zoom) * 0.006 + 0.006 reads (15 - zoom)*6 + 6. *)
(* Object identity (markers, overlays, watch ids) is a positive integer;   *)
(* 0 stands for null.                                                      *)
(***************************************************************************)
EXTENDS Integers, Sequences, FiniteSets, Bags, TLC

\* ---------------------------------------------------------------- bounds
MaxStations == 2        \* longest station list the parent passes (Spec)
MaxInput == 4           \* longest list handed to clusterStations (SpecCluster)
MaxTimers == 2          \* polling timers pending at once
MaxPending == 2         \* position fixes queued but not yet delivered
MaxMembers == 11        \* largest cluster handed to createClusterMarkerContent (SpecContent)

\* ----------------------------------------------------- program constants
MinZoom == 10
MaxZoom == 18
DefaultZoom == 12
IndividualZoom == 14
ThresholdBase == 15
ThresholdStep == 6

Null == 0
NoStation == "none"

ZoomLevels == MinZoom..MaxZoom

Range(seq) == {seq[i] : i \in 1..Len(seq)}

\* ------------------------------------------------------------- stations
Station(id, lat, lng, status, slots) ==
    [id |-> id, lat |-> lat, lng |-> lng, status |-> status, availableSlots |-> slots]

\* a-b and a-c are 20 apart and merge for zoom <= 12 (threshold 24) but not
\* for zoom 13 (threshold 18); b-c are under 13 apart and merge for zoom <= 13.
StationPool ==
    { Station("a", 0, 0, "available", 3),
      Station("b", 12, 16, "occupied", 0),
      Station("c", 0, 20, "partial", 1) }

DistinctIds(list) ==
    \A i, j \in 1..Len(list) : list[i].id = list[j].id => i = j

SeqsUpTo(S, n) == UNION {[1..k -> S] : k \in 0..n}

\* The lists the parent component passes as the stations prop.
StationLists == {l \in SeqsUpTo(StationPool, MaxStations) : DistinctIds(l)}

\* Inputs of clusterStations taken alone. Four places: P1 = (13, 22),
\* P2 = (13, 0), P3 = (0, 0), P4 = (26, 0). P2 is 13 from P3 and from P4 and
\* 22 from P1; P1 is about 25.6 from P3 and from P4; P3 and P4 are 26 apart.
\* So nothing but coincident stations merges from zoom 14 on (threshold 12),
\* only the 13s merge at zoom 13 (18), the 22 too at zoom 12 (24), and all
\* do for zoom <= 11 (30, 36).
InputCoords == {<<13, 22>>, <<13, 0>>, <<0, 0>>, <<26, 0>>}
InputIdSeq == <<"a", "b", "c", "d", "e", "f">>
InputIds == {InputIdSeq[i] : i \in 1..MaxInput}
\* The function tells statuses apart only as occupied or not.
InputStatuses(id) == IF id = "c" THEN {"partial", "occupied"} ELSE {"available", "occupied"}
InputStation(id, c, status) ==
    Station(id, c[1], c[2], status, IF status = "occupied" THEN 0 ELSE 1)
InputPool ==
    UNION { {InputStation(id, c, status) : c \in InputCoords, status \in InputStatuses(id)} :
            id \in InputIds }

\* A list of stations with pairwise distinct ids, at the given places, the
\* chosen ones occupied. The function compares ids only for equality, so the
\* ids are named in input order.
InputList(cs, occupied) ==
    [ i \in 1..Len(cs) |->
        InputStation(InputIdSeq[i], cs[i],
                     CHOOSE status \in InputStatuses(InputIdSeq[i]) :
                         (status = "occupied") = occupied[i]) ]

\* Pairs in which an id may repeat (a caller error the function does not check).
RepeatInputs == [1..2 -> InputPool]

\* ----------------------------------------------------- clusterStations
\* Mutant: the threshold grows with the zoom level.
distanceThresholdGrowing(zoom) == (zoom - MinZoom) * ThresholdStep + ThresholdStep

distanceThreshold(zoom) == (ThresholdBase - zoom) * ThresholdStep + ThresholdStep

Dist2(a, b) ==
    (a.lat - b.lat) * (a.lat - b.lat) + (a.lng - b.lng) * (a.lng - b.lng)

\* Mutant: the comparison is the wrong way round.
WithinThresholdInverted(station, otherStation, zoom) ==
    /\ distanceThreshold(zoom) > 0
    /\ Dist2(station, otherStation) >= distanceThreshold(zoom) * distanceThreshold(zoom)

\* Mutant: a station at distance 0 is taken for the seed itself and skipped.
WithinThresholdApart(station, otherStation, zoom) ==
    /\ distanceThreshold(zoom) > 0
    /\ Dist2(station, otherStation) > 0
    /\ Dist2(station, otherStation) < distanceThreshold(zoom) * distanceThreshold(zoom)

\* Mutant: the squared distance is compared with the squared threshold.
WithinThresholdSquared(station, otherStation, zoom) ==
    Dist2(station, otherStation) < distanceThreshold(zoom) * distanceThreshold(zoom)

\* dist < distanceThreshold with dist = sqrt(Dist2) >= 0.
WithinThreshold(station, otherStation, zoom) ==
    /\ distanceThreshold(zoom) > 0
    /\ Dist2(station, otherStation) < distanceThreshold(zoom) * distanceThreshold(zoom)

\* Mutant: only the status "available" counts.
AvailStrict(station) == IF station.status = "available" THEN 1 ELSE 0

Avail(station) == IF station.status # "occupied" THEN 1 ELSE 0

\* position holds the centroid times the member count: the source's running
\* mean (p * (n - 1) + x) / n is the sum of the members' coordinates over n.
NewCluster(station) ==
    [ position |-> [lat |-> station.lat, lng |-> station.lng],
      stations |-> <<station>>,
      availableStationCount |-> Avail(station) ]

\* Mutant: the station joins the cluster but is not marked processed.
PushStationUnmarked(acc, otherStation) ==
    [ cluster |->
        [ position |-> [lat |-> acc.cluster.position.lat + otherStation.lat,
                        lng |-> acc.cluster.position.lng + otherStation.lng],
          stations |-> Append(acc.cluster.stations, otherStation),
          availableStationCount |->
              acc.cluster.availableStationCount + Avail(otherStation) ],
      processed |-> acc.processed ]

PushStation(acc, otherStation) ==
    [ cluster |->
        [ position |-> [lat |-> acc.cluster.position.lat + otherStation.lat,
                        lng |-> acc.cluster.position.lng + otherStation.lng],
          stations |-> Append(acc.cluster.stations, otherStation),
          availableStationCount |->
              acc.cluster.availableStationCount + Avail(otherStation) ],
      processed |-> acc.processed \cup {otherStation.id} ]

\* Mutant: a candidate is measured against the running centroid (position
\* holds the coordinate sums, so both sides are scaled by the member count).
RECURSIVE FindNearbyCentroid(_, _, _, _, _)
FindNearbyCentroid(list, j, station, zoom, acc) ==
    IF j > Len(list) THEN acc
    ELSE IF list[j].id \in acc.processed
         THEN FindNearbyCentroid(list, j + 1, station, zoom, acc)
         ELSE LET n == Len(acc.cluster.stations)
                  dx == n * list[j].lat - acc.cluster.position.lat
                  dy == n * list[j].lng - acc.cluster.position.lng
                  t == n * distanceThreshold(zoom)
              IN  IF t > 0 /\ dx * dx + dy * dy < t * t
                  THEN FindNearbyCentroid(list, j + 1, station, zoom,
                                          PushStation(acc, list[j]))
                  ELSE FindNearbyCentroid(list, j + 1, station, zoom, acc)

RECURSIVE FindNearby(_, _, _, _, _)
FindNearby(list, j, station, zoom, acc) ==
    IF j > Len(list) THEN acc
    ELSE IF list[j].id \in acc.processed
         THEN FindNearby(list, j + 1, station, zoom, acc)
         ELSE IF WithinThreshold(station, list[j], zoom)
              THEN FindNearby(list, j + 1, station, zoom, PushStation(acc, list[j]))
              ELSE FindNearby(list, j + 1, station, zoom, acc)

RECURSIVE ClusterFrom(_, _, _, _, _)
ClusterFrom(list, i, zoom, clusters, processed) ==
    IF i > Len(list) THEN clusters
    ELSE IF list[i].id \in processed
         THEN ClusterFrom(list, i + 1, zoom, clusters, processed)
         ELSE LET acc == FindNearby(list, 1, list[i], zoom,
                                    [ cluster |-> NewCluster(list[i]),
                                      processed |-> processed \cup {list[i].id} ])
              IN  ClusterFrom(list, i + 1, zoom, Append(clusters, acc.cluster),
                              acc.processed)

clusterStations(stationsToCluster, zoom) ==
    ClusterFrom(stationsToCluster, 1, zoom, <<>>, {})

\* ---------------------------------------------------------------- state
VARIABLES
    phase,                    \* "new" | "mounted" | "unmounted"; "call" | "return" in SpecCluster
    naver,                    \* window.naver: "absent" | "partial" (no .maps) | "ready"
    env,                      \* what the host provides: props and browser capabilities
    stations,                 \* the stations prop of the last render
    hoveredStation,           \* React state
    currentZoom,              \* React state
    mapLoaded,                \* React state
    rendered,                 \* the state values the last committed render closed over
    mapRef,                   \* mapRef.current: Null or the map
    mapZoom,                  \* map.getZoom()
    mapsCreated,              \* number of naver.maps.Map constructions
    readyCalls,               \* number of onMapReady invocations
    markersRef,               \* markersRef.current: sequence of marker handles
    markers,                  \* marker objects attached to the map or tracked
    clusters,                 \* the clusters of the last clustering pass
    timers,                   \* bag of pending setTimeout(checkNaverMaps) closures
    geoWatchIdRef,            \* geoWatchIdRef.current
    activeWatches,            \* watch ids registered with navigator.geolocation
    pendingFixes,             \* position fixes queued on the geolocation task source
    currentLocationMarkerRef, \* currentLocationMarkerRef.current
    accuracyCircleRef,        \* accuracyCircleRef.current
    overlays,                 \* current-location markers and circles, attached or referenced
    lastEvent,                \* history: the last handler run and what it saw
    lastPass                  \* history: the inputs of the addMarkers pass it ran, if any

vars == << phase, naver, env, stations, hoveredStation, currentZoom, mapLoaded,
           rendered, mapRef, mapZoom, mapsCreated, readyCalls, markersRef, markers,
           clusters, timers, geoWatchIdRef, activeWatches, pendingFixes,
           currentLocationMarkerRef, accuracyCircleRef, overlays, lastEvent,
           lastPass >>

\* The mutable state as one record, so that a handler is a function from state
\* to state and handlers compose the way the calls in the source nest. A
\* handler starts with no addMarkers pass run.
Cur ==
    [ phase |-> phase, naver |-> naver, env |-> env, stations |-> stations,
      hoveredStation |-> hoveredStation, currentZoom |-> currentZoom,
      mapLoaded |-> mapLoaded, rendered |-> rendered, mapRef |-> mapRef,
      mapZoom |-> mapZoom, mapsCreated |-> mapsCreated, readyCalls |-> readyCalls,
      markersRef |-> markersRef, markers |-> markers, clusters |-> clusters,
      timers |-> timers, geoWatchIdRef |-> geoWatchIdRef,
      activeWatches |-> activeWatches, pendingFixes |-> pendingFixes,
      currentLocationMarkerRef |-> currentLocationMarkerRef,
      accuracyCircleRef |-> accuracyCircleRef, overlays |-> overlays,
      lastEvent |-> lastEvent, lastPass |-> <<>> ]

Becomes(s) ==
    /\ phase' = s.phase /\ naver' = s.naver /\ env' = s.env
    /\ stations' = s.stations /\ hoveredStation' = s.hoveredStation
    /\ currentZoom' = s.currentZoom /\ mapLoaded' = s.mapLoaded
    /\ rendered' = s.rendered /\ mapRef' = s.mapRef /\ mapZoom' = s.mapZoom
    /\ mapsCreated' = s.mapsCreated /\ readyCalls' = s.readyCalls
    /\ markersRef' = s.markersRef /\ markers' = s.markers /\ clusters' = s.clusters
    /\ timers' = s.timers /\ geoWatchIdRef' = s.geoWatchIdRef
    /\ activeWatches' = s.activeWatches /\ pendingFixes' = s.pendingFixes
    /\ currentLocationMarkerRef' = s.currentLocationMarkerRef
    /\ accuracyCircleRef' = s.accuracyCircleRef /\ overlays' = s.overlays
    /\ lastEvent' = s.lastEvent
    /\ lastPass' = s.lastPass

\* The i-th smallest positive integer not in used: a newly constructed object
\* is distinct from every object that still exists.
Fresh(used, i) ==
    CHOOSE h \in 1..(Cardinality(used) + i) :
        h \notin used /\ Cardinality((1..h) \ used) = i

Restrict(f, S) == [x \in S |-> f[x]]

\* ------------------------------------------------------ history records
\* kept: the marker handles that existed when the handler started and are
\* still attached or tracked after it; destroyed: how many it detached and
\* dropped; cause: the dependencies the render reacted to; cb, bc: the click
\* target: the marker clicked and whether the onStationClick prop was given;
\* cb, bc: the click callback's argument and the broadcast (empty when not
\* invoked); geo: the watch, location marker and circle when the handler
\* started; fix: the fix applied.
Event(op) ==
    [ op |-> op, kept |-> {}, destroyed |-> 0, cause |-> {}, target |-> <<>>,
      cb |-> <<>>, bc |-> <<>>, geo |-> <<>>, fix |-> <<>> ]

StateValues(s) ==
    [ mapLoaded |-> s.mapLoaded, hoveredStation |-> s.hoveredStation,
      currentZoom |-> s.currentZoom ]

Attached(s) == {h \in DOMAIN s.markers : s.markers[h].map}
Tracked(s) == Range(s.markersRef)
Handles(s) == Attached(s) \cup Tracked(s)
Dirty(s) == StateValues(s) # s.rendered
GeoRefs(s) == << s.geoWatchIdRef, s.currentLocationMarkerRef, s.accuracyCircleRef >>

\* ------------------------------------------------- marker content builders
createIndividualMarkerContent(station, isHovered) ==
    [ colors |-> station.status,
      scale |-> IF isHovered THEN "1.2" ELSE "1",
      size |-> 36,
      text |-> station.availableSlots ]

clusterSize(zoom) == IF zoom >= 12 THEN 36 ELSE IF zoom >= 11 THEN 32 ELSE 28

\* Mutant: a ratio of exactly 0.3 counts as below it.
clusterColorsInclusive(availableStationCount, totalStationCount) ==
    IF availableStationCount = 0 THEN "occupied"
    ELSE IF availableStationCount <= 2
            \/ availableStationCount * 10 <= 3 * totalStationCount
         THEN "partial"
         ELSE "available"

\* availableStationCount / totalStationCount < 0.3, without fractions.
clusterColors(availableStationCount, totalStationCount) ==
    IF availableStationCount = 0 THEN "occupied"
    ELSE IF availableStationCount <= 2
            \/ availableStationCount * 10 < 3 * totalStationCount
         THEN "partial"
         ELSE "available"

createClusterMarkerContent(availableStationCount, totalStationCount, zoom) ==
    [ colors |-> clusterColors(availableStationCount, totalStationCount),
      scale |-> "1",
      size |-> clusterSize(zoom),
      text |-> availableStationCount ]

\* ------------------------------------------------------------ addMarkers
\* A render closure: what addMarkers and the listeners it installs close over.
Closure(st, hovered) == [stations |-> st, hoveredStation |-> hovered]

\* Mutant: the tracked list is emptied but the markers stay on the map.
ClearMarkersAttached(s) == [ s EXCEPT !.markersRef = <<>> ]

\* markersRef.current.forEach(marker => marker.setMap(null)); markersRef.current = []
ClearMarkers(s) ==
    [ s EXCEPT
        !.markers = [h \in DOMAIN s.markers |->
                        IF h \in Tracked(s) THEN [s.markers[h] EXCEPT !.map = FALSE]
                        ELSE s.markers[h]],
        !.markersRef = <<>> ]

\* Objects neither attached to the map nor referenced are garbage.
Collect(s) ==
    [ s EXCEPT
        !.markers = Restrict(s.markers, Handles(s)),
        !.overlays = Restrict(s.overlays,
            {h \in DOMAIN s.overlays :
                \/ s.overlays[h].map
                \/ h \in {s.currentLocationMarkerRef, s.accuracyCircleRef}}) ]

IndividualMarker(station, cl) ==
    [ kind |-> "station",
      stations |-> <<station>>,
      position |-> [lat |-> station.lat, lng |-> station.lng],
      content |-> createIndividualMarkerContent(station, cl.hoveredStation = station.id),
      anchor |-> <<18, 36>>,
      map |-> TRUE ]

clusterAnchor(zoom) ==
    IF zoom >= 12 THEN <<18, 36>> ELSE IF zoom >= 11 THEN <<16, 32>> ELSE <<14, 28>>

ClusterMarker(cluster, zoom) ==
    [ kind |-> "cluster",
      stations |-> cluster.stations,
      position |-> cluster.position,
      content |-> createClusterMarkerContent(cluster.availableStationCount,
                                             Len(cluster.stations), zoom),
      anchor |-> clusterAnchor(zoom),
      map |-> TRUE ]

\* Mutant: every cluster is rendered.
RenderedAlways(cluster) == TRUE

\* if (cluster.availableStationCount === 0) return;
Rendered(cluster) == cluster.availableStationCount # 0

\* Mutant: individual mode skips occupied stations as cluster mode does.
IndividualPlanAvailable(cl) ==
    LET open == SelectSeq(cl.stations, LAMBDA st : st.status # "occupied")
    IN  [i \in 1..Len(open) |-> IndividualMarker(open[i], cl)]

IndividualPlan(cl) ==
    [i \in 1..Len(cl.stations) |-> IndividualMarker(cl.stations[i], cl)]

ClusterPlan(cs, zoom) ==
    LET kept == SelectSeq(cs, Rendered)
    IN  [i \in 1..Len(kept) |-> ClusterMarker(kept[i], zoom)]

\* Mutant: the markers are created on the map but never pushed.
AttachUntracked(s, plan) ==
    LET used == DOMAIN s.markers
        hs == [i \in 1..Len(plan) |-> Fresh(used, i)]
    IN  [ s EXCEPT
            !.markers = [h \in used \cup Range(hs) |->
                            IF h \in used THEN s.markers[h]
                            ELSE plan[CHOOSE i \in 1..Len(plan) : hs[i] = h]] ]

\* new naver.maps.Marker({map, ...}) and markersRef.current.push(marker), per entry.
Attach(s, plan) ==
    LET used == DOMAIN s.markers
        hs == [i \in 1..Len(plan) |-> Fresh(used, i)]
    IN  [ s EXCEPT
            !.markers = [h \in used \cup Range(hs) |->
                            IF h \in used THEN s.markers[h]
                            ELSE plan[CHOOSE i \in 1..Len(plan) : hs[i] = h]],
            !.markersRef = s.markersRef \o hs ]

addMarkers(s, cl, zoom) ==
    LET c == [ClearMarkers(s) EXCEPT
                 !.clusters = <<>>,
                 !.lastPass = <<[zoom |-> zoom, stations |-> cl.stations]>>]
    IN  IF zoom >= IndividualZoom
        THEN Collect(Attach(c, IndividualPlan(cl)))
        ELSE IF Len(cl.stations) = 0
             THEN Collect(c)
             ELSE LET cs == clusterStations(cl.stations, zoom)
                  IN  Collect(Attach([c EXCEPT !.clusters = cs], ClusterPlan(cs, zoom)))

\* ----------------------------------------------------------- geolocation
clearWatch(s) ==
    [ s EXCEPT !.activeWatches = @ \ {s.geoWatchIdRef}, !.geoWatchIdRef = Null ]

\* Mutant: a new watch is registered without cancelling the previous one.
startGeolocationKeepsWatch(s) ==
    IF ~s.env.geolocation \/ s.mapRef = Null THEN s
    ELSE LET id == Fresh(s.activeWatches, 1)
         IN  [ s EXCEPT !.activeWatches = @ \cup {id}, !.geoWatchIdRef = id ]

startGeolocation(s) ==
    IF ~s.env.geolocation \/ s.mapRef = Null THEN s
    ELSE LET c == IF s.geoWatchIdRef # Null THEN clearWatch(s) ELSE s
             id == Fresh(c.activeWatches, 1)
         IN  [ c EXCEPT !.activeWatches = @ \cup {id}, !.geoWatchIdRef = id ]

Detach(s, h) == [ s EXCEPT !.overlays[h].map = FALSE ]

\* Mutant: the accuracy circle is left alone.
stopGeolocationKeepsCircle(s) ==
    LET a == IF s.geoWatchIdRef # Null /\ s.env.geolocation THEN clearWatch(s) ELSE s
        b == IF a.currentLocationMarkerRef # Null
             THEN [ Detach(a, a.currentLocationMarkerRef)
                      EXCEPT !.currentLocationMarkerRef = Null ]
             ELSE a
    IN  Collect(b)

stopGeolocation(s) ==
    LET a == IF s.geoWatchIdRef # Null /\ s.env.geolocation THEN clearWatch(s) ELSE s
        b == IF a.currentLocationMarkerRef # Null
             THEN [ Detach(a, a.currentLocationMarkerRef)
                      EXCEPT !.currentLocationMarkerRef = Null ]
             ELSE a
        c == IF b.accuracyCircleRef # Null
             THEN [ Detach(b, b.accuracyCircleRef) EXCEPT !.accuracyCircleRef = Null ]
             ELSE b
    IN  Collect(c)

NewOverlay(s, obj) ==
    LET h == Fresh(DOMAIN s.overlays, 1)
    IN  [ handle |-> h,
          state |-> [ s EXCEPT !.overlays =
                        [x \in DOMAIN s.overlays \cup {h} |->
                            IF x = h THEN obj ELSE s.overlays[x]] ] ]

\* Mutant: every fix constructs a new marker.
fixMarkerAlwaysNew(s, pos) ==
    LET n == NewOverlay(s, [kind |-> "marker", position |-> pos.position,
                            radius |-> 0, map |-> TRUE])
    IN  [ n.state EXCEPT !.currentLocationMarkerRef = n.handle ]

\* The first half of the watchPosition success callback: the location marker.
fixMarker(s, pos) ==
    IF s.currentLocationMarkerRef = Null
    THEN LET n == NewOverlay(s, [kind |-> "marker", position |-> pos.position,
                                 radius |-> 0, map |-> TRUE])
         IN  [ n.state EXCEPT !.currentLocationMarkerRef = n.handle ]
    ELSE [ s EXCEPT !.overlays[s.currentLocationMarkerRef].position = pos.position ]

\* The second half: the accuracy circle. A missing naver.maps.Circle throws
\* inside the try block and the catch ignores it.
fixCircle(s, pos) ==
    IF pos.accuracy # 0
    THEN IF s.accuracyCircleRef = Null
         THEN IF s.env.circle
              THEN LET n == NewOverlay(s, [kind |-> "circle", position |-> pos.position,
                                           radius |-> pos.accuracy, map |-> TRUE])
                   IN  [ n.state EXCEPT !.accuracyCircleRef = n.handle ]
              ELSE s
         ELSE [ s EXCEPT !.overlays[s.accuracyCircleRef].position = pos.position,
                         !.overlays[s.accuracyCircleRef].radius = pos.accuracy ]
    ELSE s

onPosition(s, pos) == fixCircle(fixMarker(s, pos), pos)

\* -------------------------------------------- initialisation and effects
\* The initialZoom prop. currentZoom is useState(initialZoom) and only the
\* map's zoom_changed listener sets it, so until the map exists it still
\* holds the prop.
initialZoom(s) == s.currentZoom

\* Mutant: the map is built whether or not mapRef already holds one.
checkNaverMapsUnguarded(s, cl) ==
    IF s.naver = "ready"
    THEN IF s.phase = "mounted"
         THEN LET m == [ s EXCEPT !.mapRef = s.mapsCreated + 1,
                                  !.mapsCreated = @ + 1,
                                  !.mapZoom = initialZoom(s),
                                  !.mapLoaded = TRUE,
                                  !.readyCalls = @ + 1 ]
              IN  startGeolocation(addMarkers(m, cl, m.mapZoom))
         ELSE s
    ELSE IF s.naver = "absent"
         THEN [ s EXCEPT !.timers = @ (+) SetToBag({cl}) ]
         ELSE s

checkNaverMaps(s, cl) ==
    IF s.naver = "ready"
    THEN IF s.phase = "mounted" /\ s.mapRef = Null
         THEN LET m == [ s EXCEPT !.mapRef = s.mapsCreated + 1,
                                  !.mapsCreated = @ + 1,
                                  !.mapZoom = initialZoom(s),
                                  !.mapLoaded = TRUE,
                                  !.readyCalls = @ + 1 ]
              IN  startGeolocation(addMarkers(m, cl, m.mapZoom))
         ELSE s
    ELSE IF s.naver = "absent"
         THEN [ s EXCEPT !.timers = @ (+) SetToBag({cl}) ]
         ELSE s

\* What a render reacts to: the dependencies that differ from the last render.
Causes(s, stChanged, initChanged) ==
    {c \in {"stations", "init", "mapLoaded", "hover", "zoom"} :
        \/ c = "stations" /\ stChanged
        \/ c = "init" /\ initChanged
        \/ c = "mapLoaded" /\ s.rendered.mapLoaded # s.mapLoaded
        \/ c = "hover" /\ s.rendered.hoveredStation # s.hoveredStation
        \/ c = "zoom" /\ s.rendered.currentZoom # s.currentZoom}

\* The initialisation effect (deps initialCenter, initialZoom, onMapReady):
\* the previous run's cleanup, then the body.
initEffect(s, cl, cleanup) ==
    checkNaverMaps(IF cleanup THEN stopGeolocation(s) ELSE s, cl)

\* The marker effect (deps mapLoaded, addMarkers, currentZoom); mapLoaded and
\* currentZoom are the values of the render that scheduled it.
markerEffect(s, cl) ==
    IF s.rendered.mapLoaded /\ s.mapRef # Null
    THEN addMarkers(s, cl, s.rendered.currentZoom)
    ELSE s

\* One render and commit: the effects whose dependencies changed run in the
\* order the component declares them.
Commit(s, st, stChanged, initChanged) ==
    LET cl == Closure(st, s.hoveredStation)
        r == [ s EXCEPT !.stations = st, !.rendered = StateValues(s) ]
        a == IF initChanged THEN initEffect(r, cl, TRUE) ELSE r
    IN  IF Causes(s, stChanged, FALSE) # {} THEN markerEffect(a, cl) ELSE a

\* ------------------------------------------------------ marker listeners
StationPayload(station) == [kind |-> "station", stations |-> <<station>>]
ListPayload(list) == [kind |-> "list", stations |-> list]
Target(m, onStationClick) ==
    <<[kind |-> m.kind, stations |-> m.stations, onStationClick |-> onStationClick]>>

\* The click listener of an individual marker.
individualClick(m, onStationClick) ==
    [ Event("click") EXCEPT
        !.target = Target(m, onStationClick),
        !.cb = IF onStationClick THEN <<StationPayload(m.stations[1])>> ELSE <<>>,
        !.bc = <<[name |-> "naver-marker-click", detail |-> StationPayload(m.stations[1])]>> ]

\* Mutant: the callback is invoked for clusters of any size.
clusterClickAnySize(m, onStationClick) ==
    [ Event("click") EXCEPT
        !.target = Target(m, onStationClick),
        !.cb = IF onStationClick THEN <<StationPayload(m.stations[1])>> ELSE <<>>,
        !.bc = <<[name |-> "naver-cluster-click", detail |-> ListPayload(m.stations)]>> ]

\* The click listener of a cluster marker.
clusterClick(m, onStationClick) ==
    [ Event("click") EXCEPT
        !.target = Target(m, onStationClick),
        !.cb = IF Len(m.stations) = 1 /\ onStationClick
               THEN <<StationPayload(m.stations[1])>> ELSE <<>>,
        !.bc = <<[name |-> "naver-cluster-click", detail |-> ListPayload(m.stations)]>> ]

\* The mouseover (isHovered) and mouseout listeners of an individual marker.
hoverListener(s, h, isHovered) ==
    LET station == s.markers[h].stations[1]
    IN  [ s EXCEPT
            !.hoveredStation = IF isHovered THEN station.id ELSE NoStation,
            !.markers[h].content = createIndividualMarkerContent(station, isHovered) ]

\* -------------------------------------------------------------- actions
Envs ==
    [ geolocation : BOOLEAN, circle : BOOLEAN ]

Positions ==
    { [position |-> <<1, 1>>, accuracy |-> 0],
      [position |-> <<1, 1>>, accuracy |-> 20],
      [position |-> <<2, 2>>, accuracy |-> 35] }

\* The component after construction, before its first effects run.
Constructed(n, e, st, zoom) ==
    /\ phase = "new"
    /\ naver = n
    /\ env = e
    /\ stations = st
    /\ hoveredStation = NoStation
    /\ currentZoom = zoom
    /\ mapLoaded = FALSE
    /\ rendered = [mapLoaded |-> FALSE, hoveredStation |-> NoStation,
                   currentZoom |-> currentZoom]
    /\ mapRef = Null
    /\ mapZoom = currentZoom
    /\ mapsCreated = 0
    /\ readyCalls = 0
    /\ markersRef = <<>>
    /\ markers = <<>>
    /\ clusters = <<>>
    /\ timers = EmptyBag
    /\ geoWatchIdRef = Null
    /\ activeWatches = {}
    /\ pendingFixes = <<>>
    /\ currentLocationMarkerRef = Null
    /\ accuracyCircleRef = Null
    /\ overlays = <<>>
    /\ lastEvent = Event("init")
    /\ lastPass = <<>>

NoGeolocation == [geolocation |-> FALSE, circle |-> FALSE]

Init ==
    \E n \in {"absent", "partial", "ready"}, e \in Envs, st \in StationLists,
       zoom \in {DefaultZoom, IndividualZoom} :
        Constructed(n, e, st, zoom)

\* The handler's result becomes the next state (the singleton set makes TLC
\* compute it once).
Finish(s, ev) ==
    \E t \in {[s EXCEPT !.lastEvent = ev]} :
        /\ BagCardinality(t.timers) <= MaxTimers
        /\ Becomes(t)

\* The first render: both effects run, nothing is cleaned up.
Mount ==
    /\ phase = "new"
    /\ LET s == [Cur EXCEPT !.phase = "mounted"]
           cl == Closure(s.stations, s.hoveredStation)
       IN  Finish(markerEffect(initEffect(s, cl, FALSE), cl), Event("mount"))

\* A re-render: of the parent (new props) or after a state change. st is the
\* stations prop, stChanged whether its identity differs from the last
\* render's, initChanged whether initialCenter, initialZoom or onMapReady
\* differ in identity (they do on every render when the parent passes none:
\* the default initialCenter is a new object each time).
Render(st, stChanged, initChanged) ==
    /\ phase = "mounted"
    /\ st # stations => stChanged
    /\ Causes(Cur, stChanged, initChanged) # {}
    /\ \E after \in {Commit(Cur, st, stChanged, initChanged)} :
           Finish(after,
                  [Event("render") EXCEPT
                      !.kept = Handles(Cur) \cap Handles(after),
                      !.destroyed = Cardinality(Handles(Cur) \ Handles(after)),
                      !.cause = Causes(Cur, stChanged, initChanged)])

Unmount ==
    /\ phase = "mounted"
    /\ Finish(stopGeolocation([Cur EXCEPT !.phase = "unmounted"]),
              [Event("unmount") EXCEPT !.geo = GeoRefs(Cur)])

ScriptLoads(n) ==
    /\ \/ naver = "absent" /\ n \in {"partial", "ready"}
       \/ naver = "partial" /\ n = "ready"
    /\ Finish([Cur EXCEPT !.naver = n], Event("script"))

TimerFires(cl) ==
    /\ cl \in BagToSet(timers)
    /\ Finish(checkNaverMaps([Cur EXCEPT !.timers = @ (-) SetToBag({cl})], cl),
              Event("timer"))

\* React commits the render a handler scheduled before the next input event
\* is dispatched: renders do not overlap and input waits for them.
Idle == phase = "mounted" /\ ~Dirty(Cur)

\* The user zooms the map: the zoom_changed listener runs setCurrentZoom.
ZoomChanged(z) ==
    /\ Idle /\ mapRef # Null /\ z # mapZoom
    /\ Finish([Cur EXCEPT !.mapZoom = z, !.currentZoom = z], Event("zoom"))

MouseOver(h) ==
    /\ Idle /\ h \in Attached(Cur) /\ markers[h].kind = "station"
    /\ Finish(hoverListener(Cur, h, TRUE),
              Event("mouseover"))

MouseOut(h) ==
    /\ Idle /\ h \in Attached(Cur) /\ markers[h].kind = "station"
    /\ Finish(hoverListener(Cur, h, FALSE),
              Event("mouseout"))

\* onStationClick: whether the render that built the marker was given the prop.
Click(h, onStationClick) ==
    /\ Idle /\ h \in Attached(Cur)
    /\ Finish(Cur, IF markers[h].kind = "station"
                   THEN individualClick(markers[h], onStationClick)
                   ELSE clusterClick(markers[h], onStationClick))

\* The naver-start-geolocation and naver-stop-geolocation window events.
HandleStart ==
    /\ phase = "mounted"
    /\ Finish(IF mapRef # Null THEN startGeolocation(Cur) ELSE Cur,
              [Event("start") EXCEPT !.geo = GeoRefs(Cur)])

HandleStop ==
    /\ phase = "mounted"
    /\ Finish(stopGeolocation(Cur), [Event("stop") EXCEPT !.geo = GeoRefs(Cur)])

\* The browser acquires a position for a registered watch and queues the
\* task that will call the success callback.
FixAcquired(pos) ==
    /\ activeWatches # {}
    /\ Len(pendingFixes) < MaxPending
    /\ Finish([Cur EXCEPT !.pendingFixes = Append(@, pos)], Event("acquired"))

\* The queued task runs: the callback is called whether or not the watch
\* has been cleared in between.
FixDelivered ==
    /\ pendingFixes # <<>>
    /\ Finish(onPosition([Cur EXCEPT !.pendingFixes = Tail(@)], Head(pendingFixes)),
              [Event("fix") EXCEPT !.geo = GeoRefs(Cur), !.fix = <<Head(pendingFixes)>>])

Next ==
    \/ Mount
    \/ \E st \in StationLists, stChanged, initChanged \in BOOLEAN :
           Render(st, stChanged, initChanged)
    \/ Unmount
    \/ \E n \in {"partial", "ready"} : ScriptLoads(n)
    \/ \E cl \in BagToSet(timers) : TimerFires(cl)
    \/ \E z \in ZoomLevels : ZoomChanged(z)
    \/ \E h \in DOMAIN markers : MouseOver(h)
    \/ \E h \in DOMAIN markers : MouseOut(h)
    \/ \E h \in DOMAIN markers, onStationClick \in BOOLEAN : Click(h, onStationClick)
    \/ HandleStart
    \/ HandleStop
    \/ \E pos \in Positions : FixAcquired(pos)
    \/ FixDelivered

Spec == Init /\ [][Next]_vars

\* The marker lifecycle alone: the map script is loaded before the component
\* mounts, so no polling timer is ever set, and there is no
\* navigator.geolocation, so the position tracker never starts. addMarkers
\* and the marker listeners read and write markersRef, the markers and the
\* React state only; with the map built at mount and no tracker, the
\* initialisation effect changes nothing when it runs again, so every render
\* is taken to run it (the default initialCenter).
InitMarkers ==
    \E st \in StationLists, zoom \in {DefaultZoom, IndividualZoom} :
        Constructed("ready", NoGeolocation, st, zoom)

NextMarkers ==
    \/ Mount
    \/ \E st \in StationLists, stChanged \in BOOLEAN : Render(st, stChanged, TRUE)
    \/ Unmount
    \/ \E z \in ZoomLevels : ZoomChanged(z)
    \/ \E h \in DOMAIN markers : MouseOver(h)
    \/ \E h \in DOMAIN markers : MouseOut(h)
    \/ \E h \in DOMAIN markers, onStationClick \in BOOLEAN : Click(h, onStationClick)

SpecMarkers == InitMarkers /\ [][NextMarkers]_vars

\* The position tracker alone: one station list, no pointer or zoom events.
\* startGeolocation, stopGeolocation and the fix callback read and write the
\* three geolocation refs and the overlays only; a render reaches them
\* through the initialisation effect's cleanup.
InitGeo ==
    \E n \in {"absent", "partial", "ready"}, e \in Envs :
        Constructed(n, e, <<>>, DefaultZoom)

NextGeo ==
    \/ Mount
    \/ \E stChanged, initChanged \in BOOLEAN : Render(stations, stChanged, initChanged)
    \/ Unmount
    \/ \E n \in {"partial", "ready"} : ScriptLoads(n)
    \/ \E cl \in BagToSet(timers) : TimerFires(cl)
    \/ HandleStart
    \/ HandleStop
    \/ \E pos \in Positions : FixAcquired(pos)
    \/ FixDelivered

SpecGeo == InitGeo /\ [][NextGeo]_vars

\* The same with what the browser and React guarantee to happen: the first
\* render's effects run, a pending timer fires, a queued fix task runs and a
\* render scheduled by a state update commits. Script loading, parent
\* re-renders, unmounting and the start and stop requests are up to the
\* environment.
CommitPending ==
    \E stChanged, initChanged \in BOOLEAN :
        Dirty(Cur) /\ Render(stations, stChanged, initChanged)

SpecGeoFair ==
    /\ SpecGeo
    /\ WF_vars(Mount)
    /\ WF_vars(\E cl \in BagToSet(timers) : TimerFires(cl))
    /\ WF_vars(FixDelivered)
    /\ WF_vars(CommitPending)


\* clusterStations alone: the call on every input list and zoom level.
\* The inputs: every list of up to MaxInput stations with pairwise distinct
\* ids, at any of the places, each occupied or not, and every pair of
\* RepeatInputs.
InitCluster ==
    \/ \E k \in 0..MaxInput :
         \E cs \in [1..k -> InputCoords], occupied \in [1..k -> BOOLEAN],
            zoom \in ZoomLevels :
              Constructed("ready", NoGeolocation, InputList(cs, occupied), zoom)
    \/ \E list \in RepeatInputs, zoom \in ZoomLevels :
          Constructed("ready", NoGeolocation, list, zoom)

ClusterCall ==
    /\ phase = "new"
    /\ Finish([Cur EXCEPT !.phase = "return",
                          !.clusters = clusterStations(stations, currentZoom)],
              Event("cluster"))

NextCluster == ClusterCall

SpecCluster == InitCluster /\ [][NextCluster]_vars

\* createClusterMarkerContent alone, as the cluster branch of addMarkers calls
\* it: on a cluster of any size up to MaxMembers with any number of available
\* members, at every zoom level of that branch.
MemberList(total, available) ==
    [ i \in 1..total |->
        Station(ToString(i), 0, 0, IF i <= available THEN "available" ELSE "occupied",
                IF i <= available THEN 1 ELSE 0) ]

ContentInputs ==
    UNION { { [ position |-> [lat |-> 0, lng |-> 0],
                stations |-> MemberList(total, available),
                availableStationCount |-> available ] :
              available \in 0..total } :
            total \in 1..MaxMembers }

InitContent ==
    \E zoom \in MinZoom..(IndividualZoom - 1) :
        Constructed("ready", NoGeolocation, <<>>, zoom)

ContentCall(cluster) ==
    /\ phase = "new"
    /\ Finish([Cur EXCEPT !.phase = "return",
                          !.clusters = <<cluster>>,
                          !.markers = <<ClusterMarker(cluster, currentZoom)>>],
              Event("content"))

NextContent == \E cluster \in ContentInputs : ContentCall(cluster)

SpecContent == InitContent /\ [][NextContent]_vars

\* =============================================================== claims
\* The positions of a cluster list: <<k, j>> is member j of cluster k.
Slots(cs) == UNION {{<<k, j>> : j \in 1..Len(cs[k].stations)} : k \in 1..Len(cs)}

\* C1: for a list of stations with pairwise distinct ids and a zoom below 14,
\* clusterStations returns a partition of the input: every input station is
\* a member of exactly one cluster, at exactly one place, no cluster is empty
\* and the member counts add up to the number of input stations.
C1_ClustersPartitionInput ==
    (phase = "return" /\ DistinctIds(stations) /\ currentZoom < IndividualZoom) =>
        /\ \A i \in 1..Len(stations) :
              Cardinality({p \in Slots(clusters) :
                              clusters[p[1]].stations[p[2]] = stations[i]}) = 1
        /\ \A k \in 1..Len(clusters) : Len(clusters[k].stations) >= 1
        /\ Cardinality(Slots(clusters)) = Len(stations)

\* C1 witness: three stations with distinct ids, clustered below zoom 14 into
\* one cluster of two and one cluster of one.
C1_Witness ==
    /\ phase = "return" /\ DistinctIds(stations) /\ currentZoom < IndividualZoom
    /\ Len(stations) = 3 /\ Len(clusters) = 2
    /\ Len(clusters[1].stations) = 2

\* The markers a pass is expected to leave: one per entry of want, in order,
\* each attached, of the given kind and standing for the entry's stations.
MarkersAre(kind, want) ==
    /\ Len(markersRef) = Len(want)
    /\ Cardinality(Range(markersRef)) = Len(markersRef)
    /\ {h \in DOMAIN markers : markers[h].map} = Range(markersRef)
    /\ \A i \in 1..Len(want) :
          /\ markers[markersRef[i]].kind = kind
          /\ markers[markersRef[i]].stations = want[i]

\* C2: after an addMarkers pass run at zoom >= 14 the rendered markers are
\* exactly one individual marker per input station, whatever the stations'
\* distances and statuses.
C2_IndividualOnePerStation ==
    (lastPass # <<>> /\ lastPass[1].zoom >= IndividualZoom) =>
        MarkersAre("station",
                   [i \in 1..Len(lastPass[1].stations) |-> <<lastPass[1].stations[i]>>])

\* C2 witness: a pass at zoom >= 14 over two stations that lie within every
\* clustering threshold of each other, one of them occupied.
C2_Witness ==
    /\ lastPass # <<>> /\ lastPass[1].zoom >= IndividualZoom
    /\ Len(lastPass[1].stations) = 2
    /\ lastPass[1].stations[1].status = "occupied"
    /\ WithinThreshold(lastPass[1].stations[1], lastPass[1].stations[2], IndividualZoom - 1)
    /\ Len(markersRef) = 2

HasAvailable(cluster) == cluster.availableStationCount > 0

\* C3: after an addMarkers pass run at zoom < 14 the rendered markers are,
\* in order, exactly one cluster marker per cluster of the pass whose
\* availableStationCount is above 0; a cluster with none has no marker.
C3_ClusterMarkersAreAvailableClusters ==
    (lastPass # <<>> /\ lastPass[1].zoom < IndividualZoom) =>
        /\ clusters = IF lastPass[1].stations = <<>> THEN <<>>
                      ELSE clusterStations(lastPass[1].stations, lastPass[1].zoom)
        /\ LET kept == SelectSeq(clusters, HasAvailable)
           IN  MarkersAre("cluster", [i \in 1..Len(kept) |-> kept[i].stations])

\* C3 witness: a pass below zoom 14 that found two clusters, one with no
\* available station, and rendered only the other.
C3_Witness ==
    /\ lastPass # <<>> /\ lastPass[1].zoom < IndividualZoom
    /\ Len(clusters) = 2
    /\ \E k \in 1..2 : clusters[k].availableStationCount = 0
    /\ Len(markersRef) = 1

\* C4: no marker handle that existed before a zoom-triggered re-render is
\* attached or tracked after it: the pass detached every one and emptied the
\* tracked list before it attached the new markers.
C4_ZoomRerenderKeepsNoHandle ==
    (lastEvent.op = "render" /\ "zoom" \in lastEvent.cause) =>
        /\ lastPass # <<>>
        /\ lastEvent.kept = {}

\* C4 witness: a re-render caused by a zoom change alone that destroyed two
\* markers and attached new ones.
C4_Witness ==
    /\ lastEvent.op = "render" /\ lastEvent.cause = {"zoom", "init"}
    /\ lastEvent.destroyed = 2
    /\ Len(markersRef) >= 1

\* What the map should show for a zoom and a station list.
PlanFor(zoom, list) ==
    IF zoom >= IndividualZoom
    THEN [kind |-> "station", want |-> [i \in 1..Len(list) |-> <<list[i]>>]]
    ELSE LET kept == SelectSeq(clusterStations(list, zoom), HasAvailable)
         IN  [kind |-> "cluster", want |-> [i \in 1..Len(kept) |-> kept[i].stations]]

\* C5: station and cluster markers are neither leaked nor duplicated: the
\* markers attached to the map are exactly the tracked ones, each once, and
\* once the pending render has run they are one marker per entry of the render
\* plan for the current zoom and the current station list.
C5_MarkersMatchRenderPlan ==
    /\ {h \in DOMAIN markers : markers[h].map} = Range(markersRef)
    /\ Cardinality(Range(markersRef)) = Len(markersRef)
    /\ (phase = "mounted" /\ mapLoaded /\ ~Dirty(Cur)) =>
           MarkersAre(PlanFor(currentZoom, stations).kind,
                      PlanFor(currentZoom, stations).want)

\* C5 witness: a settled map after a re-render that destroyed markers, with
\* a station hovered, a zoom other than the initial ones and two markers shown.
C5_Witness ==
    /\ phase = "mounted" /\ mapLoaded /\ ~Dirty(Cur)
    /\ lastEvent.op = "render" /\ lastEvent.destroyed >= 1
    /\ hoveredStation # NoStation
    /\ currentZoom \notin {DefaultZoom, IndividualZoom}
    /\ Len(markersRef) = 2

\* C6 as claimed: with a click callback given, a click invokes it with the
\* single station (individual marker, singleton cluster) or with the member
\* list (multi-member cluster), and the broadcast carries the same payload.
C6_ClickAsClaimed ==
    (lastEvent.op = "click" /\ lastEvent.target[1].onStationClick) =>
        LET t == lastEvent.target[1]
            expected == IF t.kind = "station" \/ Len(t.stations) = 1
                        THEN [kind |-> "station", stations |-> <<t.stations[1]>>]
                        ELSE [kind |-> "list", stations |-> t.stations]
        IN  /\ lastEvent.cb = <<expected>>
            /\ Len(lastEvent.bc) = 1
            /\ lastEvent.bc[1].detail = lastEvent.cb[1]

\* C6 amended: a click on an individual marker invokes the callback, when
\* given, with the station and broadcasts naver-marker-click with the same
\* station; a click on a cluster marker invokes the callback, when given,
\* only if the cluster has one member, with that station, and in every case
\* broadcasts naver-cluster-click with the member list (a list also for one
\* member); a multi-member cluster invokes no callback.
C6_ClickAmended ==
    lastEvent.op = "click" =>
        LET t == lastEvent.target[1]
            one == [kind |-> "station", stations |-> <<t.stations[1]>>]
        IN  /\ Len(lastEvent.bc) = 1
            /\ t.kind = "station" =>
                  /\ lastEvent.cb = IF t.onStationClick THEN <<one>> ELSE <<>>
                  /\ lastEvent.bc[1] = [name |-> "naver-marker-click", detail |-> one]
            /\ t.kind = "cluster" =>
                  /\ lastEvent.cb = IF t.onStationClick /\ Len(t.stations) = 1
                                    THEN <<one>> ELSE <<>>
                  /\ lastEvent.bc[1] = [ name |-> "naver-cluster-click",
                                         detail |-> [kind |-> "list",
                                                     stations |-> t.stations] ]

\* C6 witness: a click, with the callback given, on a cluster of two.
C6_Witness ==
    /\ lastEvent.op = "click"
    /\ lastEvent.target[1].onStationClick
    /\ lastEvent.target[1].kind = "cluster"
    /\ Len(lastEvent.target[1].stations) = 2

\* C7 as claimed: a pointer-enter or pointer-leave on an individual marker is
\* no lifecycle change: the re-render that the hover change alone triggers
\* destroys no marker and creates none.
C7_HoverKeepsMarkers ==
    (lastEvent.op = "render" /\ lastEvent.cause \subseteq {"hover", "init"}
        /\ "hover" \in lastEvent.cause) =>
        /\ lastEvent.destroyed = 0
        /\ Range(markersRef) = lastEvent.kept

\* C8: after stopGeolocation has returned (the stop event, the unmount, or
\* the cleanup of the initialisation effect with the map already built) no
\* watch is registered, the watch id is null, and no location marker or
\* accuracy circle is attached or referenced.
C8_StopReleasesEverything ==
    (\/ lastEvent.op \in {"stop", "unmount"}
     \/ lastEvent.op = "render" /\ "init" \in lastEvent.cause /\ rendered.mapLoaded) =>
        /\ geoWatchIdRef = Null
        /\ activeWatches = {}
        /\ currentLocationMarkerRef = Null
        /\ accuracyCircleRef = Null
        /\ DOMAIN overlays = {}

\* C8 witness: a stop that found a watch, a location marker and a circle.
C8_Witness ==
    /\ lastEvent.op = "stop"
    /\ lastEvent.geo[1] # Null /\ lastEvent.geo[2] # Null /\ lastEvent.geo[3] # Null

\* C9 as claimed: a fix delivered while no watch is registered (stop was
\* called and start has not been called again) is discarded: afterwards there
\* is no location marker and no accuracy circle.
C9_FixAfterStopDiscarded ==
    (lastEvent.op = "fix" /\ lastEvent.geo[1] = Null) =>
        /\ currentLocationMarkerRef = Null
        /\ accuracyCircleRef = Null
        /\ DOMAIN overlays = {}

OnMap(kind) == {h \in DOMAIN overlays : overlays[h].kind = kind /\ overlays[h].map}

\* C10 as claimed: after any fix both the location marker and the accuracy
\* circle exist: the first fix created them and later ones updated them.
C10_FixCreatesBoth ==
    lastEvent.op = "fix" =>
        /\ currentLocationMarkerRef # Null
        /\ accuracyCircleRef # Null

\* C10 amended: at most one location marker and one accuracy circle are on
\* the map, and they are the referenced ones. A fix leaves the marker at its
\* position: the same object when one existed, a new one otherwise. A fix
\* with a non-zero accuracy leaves the circle at its position and radius: the
\* same object when one existed, a new one otherwise, none when
\* naver.maps.Circle is missing. A fix without accuracy leaves the circle as
\* it was.
C10_OneMarkerUpdatedInPlace ==
    /\ OnMap("marker") \subseteq {currentLocationMarkerRef}
    /\ OnMap("circle") \subseteq {accuracyCircleRef}
    /\ lastEvent.op = "fix" =>
          LET fix == lastEvent.fix[1]
              hadMarker == lastEvent.geo[2]
              hadCircle == lastEvent.geo[3]
          IN  /\ currentLocationMarkerRef \in OnMap("marker")
              /\ overlays[currentLocationMarkerRef].position = fix.position
              /\ hadMarker # Null => currentLocationMarkerRef = hadMarker
              /\ hadCircle # Null => accuracyCircleRef = hadCircle
              /\ (fix.accuracy # 0 /\ (hadCircle # Null \/ env.circle)) =>
                    /\ accuracyCircleRef \in OnMap("circle")
                    /\ overlays[accuracyCircleRef].position = fix.position
                    /\ overlays[accuracyCircleRef].radius = fix.accuracy
              /\ (fix.accuracy = 0 \/ (hadCircle = Null /\ ~env.circle)) =>
                    accuracyCircleRef = hadCircle

\* C10 witness: a fix with a new position and accuracy that found a marker
\* and a circle and updated both.
C10_Witness ==
    /\ lastEvent.op = "fix"
    /\ lastEvent.geo[2] # Null /\ lastEvent.geo[3] # Null
    /\ lastEvent.fix[1].accuracy = 35
    /\ geoWatchIdRef # Null

C12_ClusterCategory ==
    (phase = "return" /\ lastEvent.op = "content") =>
        LET available == clusters[1].availableStationCount
            total == Len(clusters[1].stations)
            category == markers[1].content.colors
        IN  /\ available = 0 => category = "occupied"
            /\ available \in {1, 2} => category = "partial"
            /\ (available >= 3 /\ 10 * available < 3 * total) => category = "partial"
            /\ (available >= 3 /\ 10 * available >= 3 * total) => category = "available"
            /\ (available = 0 /\ total = 5) => category = "occupied"
            /\ (available = 1 /\ total = 10) => category = "partial"
            /\ (available = 2 /\ total = 3) => category = "partial"
            /\ (available = 8 /\ total = 10) => category = "available"

\* C12 witness: three available of eleven, below three in ten, is partial by
\* the ratio alone.
C12_Witness ==
    /\ phase = "return" /\ lastEvent.op = "content"
    /\ clusters[1].availableStationCount = 3
    /\ Len(clusters[1].stations) = 11
    /\ markers[1].content.colors = "partial"

\* C13 as claimed: while the component is mounted and window.naver is
\* absent, no map is built and a poll stays scheduled; and once the map
\* library is there while the component is mounted, the polling loop
\* eventually constructs the map (unless the component unmounts first).
C13_PollingBuildsMap ==
    /\ [](phase = "mounted" /\ naver = "absent" => mapRef = Null /\ timers # EmptyBag)
    /\ (phase = "mounted" /\ naver = "ready") ~> (mapRef # Null \/ phase = "unmounted")

\* C14 as claimed: when the distance threshold is zero or negative (zoom
\* >= 16) clusterStations returns one single-member cluster per input
\* station, whatever the distances.
C14_NoMergeAsClaimed ==
    (phase = "return" /\ distanceThreshold(currentZoom) <= 0) =>
        /\ Len(clusters) = Len(stations)
        /\ \A k \in 1..Len(clusters) : clusters[k].stations = <<stations[k]>>

\* C14 amended: when the distance threshold is zero or negative no two
\* stations are merged, whatever their distance: every returned cluster has
\* exactly one member, there is one cluster per id of the input, and for a
\* list with pairwise distinct ids that is one single-member cluster per
\* input station, in input order. (A station whose id repeats an earlier
\* one is dropped.)
C14_NoMergeDistinctIds ==
    (phase = "return" /\ distanceThreshold(currentZoom) <= 0) =>
        /\ \A k \in 1..Len(clusters) : Len(clusters[k].stations) = 1
        /\ Len(clusters) = Cardinality({stations[i].id : i \in 1..Len(stations)})
        /\ DistinctIds(stations) =>
              /\ Len(clusters) = Len(stations)
              /\ \A k \in 1..Len(clusters) : clusters[k].stations = <<stations[k]>>

\* C14 witness: zoom 17, three stations with distinct ids, two of them at
\* the same place, three clusters.
C14_Witness ==
    /\ phase = "return" /\ currentZoom = 17
    /\ Len(stations) = 3 /\ DistinctIds(stations)
    /\ Dist2(stations[1], stations[2]) = 0
    /\ Len(clusters) = 3

Coincident(list) == \A i, j \in 1..Len(list) : Dist2(list[i], list[j]) = 0

\* C15 as claimed: at every zoom level 10..18, stations that all have the
\* same coordinates come back as exactly one cluster containing all of them;
\* an empty input gives no cluster and a single station one single-member
\* cluster.
C15_CoincidentAsClaimed ==
    phase = "return" =>
        /\ stations = <<>> => clusters = <<>>
        /\ Len(stations) = 1 => /\ Len(clusters) = 1
                                /\ clusters[1].stations = stations
        /\ (stations # <<>> /\ Coincident(stations)) =>
              /\ Len(clusters) = 1
              /\ clusters[1].stations = stations

\* C15 amended: an empty input gives no cluster and a single station one
\* single-member cluster, at every zoom level 10..18. Stations with pairwise
\* distinct ids that all have the same coordinates come back as exactly one
\* cluster containing all of them, in input order, at every zoom level with
\* a positive threshold (zoom <= 15); at zoom >= 16 each comes back as a
\* cluster of its own.
C15_CoincidentPositiveThreshold ==
    phase = "return" =>
        /\ stations = <<>> => clusters = <<>>
        /\ Len(stations) = 1 => /\ Len(clusters) = 1
                                /\ clusters[1].stations = stations
        /\ (stations # <<>> /\ Coincident(stations) /\ DistinctIds(stations)) =>
              IF distanceThreshold(currentZoom) > 0
              THEN /\ Len(clusters) = 1
                   /\ clusters[1].stations = stations
              ELSE /\ Len(clusters) = Len(stations)
                   /\ \A k \in 1..Len(clusters) : clusters[k].stations = <<stations[k]>>

\* C15 witness: four stations with distinct ids at one place, at zoom 15
\* (the smallest positive threshold), in one cluster.
C15_Witness ==
    /\ phase = "return" /\ currentZoom = 15
    /\ Len(stations) = 4 /\ DistinctIds(stations) /\ Coincident(stations)
    /\ Len(clusters) = 1 /\ Len(clusters[1].stations) = 4

\* The place in the input of the first station with the given id.
Pos(id) ==
    CHOOSE i \in 1..Len(stations) :
        stations[i].id = id /\ \A j \in 1..(i - 1) : stations[j].id # id

\* Every cluster's members after the first lie strictly within the
\* threshold of the first member's own coordinates, and the members are
\* input stations in input order.
SeedFirst ==
    \A k \in 1..Len(clusters) :
        LET ms == clusters[k].stations
        IN  /\ \A j \in 2..Len(ms) : WithinThreshold(ms[1], ms[j], currentZoom)
            /\ \A j \in 1..Len(ms) : stations[Pos(ms[j].id)] = ms[j]
            /\ \A j \in 1..(Len(ms) - 1) : Pos(ms[j].id) < Pos(ms[j + 1].id)

\* The input station at place i is no seed and is a member of the cluster
\* of the earliest seed that lies within the threshold of it.
ClaimedByEarliestSeed(i) ==
    LET near == {k \in 1..Len(clusters) :
                    WithinThreshold(clusters[k].stations[1], stations[i], currentZoom)}
        seed == \E k \in 1..Len(clusters) : Pos(clusters[k].stations[1].id) = i
    IN  ~seed =>
           /\ near # {}
           /\ LET first == CHOOSE k \in near : \A other \in near : k <= other
              IN  \E j \in 2..Len(clusters[first].stations) :
                      Pos(clusters[first].stations[j].id) = i

C18_RenderKeepsSubscription ==
    [][ (lastEvent'.op = "render" /\ geoWatchIdRef # Null) =>
            /\ geoWatchIdRef' = geoWatchIdRef
            /\ activeWatches' = activeWatches
            /\ currentLocationMarkerRef' = currentLocationMarkerRef ]_vars

\* C19: in every cluster clusterStations returns, availableStationCount is
\* the number of members whose status is not occupied, so it lies between 0
\* and the number of members.
C19_AvailableCountsNonOccupied ==
    phase = "return" =>
        \A k \in 1..Len(clusters) :
            LET ms == clusters[k].stations
            IN  /\ clusters[k].availableStationCount =
                      Cardinality({j \in 1..Len(ms) : ms[j].status # "occupied"})
                /\ clusters[k].availableStationCount \in 0..Len(ms)

\* C19 witness: a cluster of an available, an occupied and a partial
\* station, counted as two.
C19_Witness ==
    /\ phase = "return" /\ Len(clusters) >= 1
    /\ {clusters[1].stations[j].status : j \in 1..Len(clusters[1].stations)}
          = {"available", "occupied", "partial"}
    /\ Len(clusters[1].stations) = 3
    /\ clusters[1].availableStationCount = 2

\* C20: the map is constructed at most once and onMapReady is invoked at
\* most once per component instance, however many polling timers fire and
\* however often the initialisation effect runs again; mapRef holds a map
\* exactly when one has been constructed.
C20_MapBuiltAtMostOnce ==
    /\ mapsCreated <= 1
    /\ readyCalls <= 1
    /\ mapRef # Null <=> mapsCreated = 1

\* C20 witness: a polling timer fired after the map had been built and the
\* render that followed had committed, while another timer is still pending.
C20_Witness ==
    /\ lastEvent.op = "timer"
    /\ mapsCreated = 1 /\ readyCalls = 1
    /\ rendered.mapLoaded
    /\ timers # EmptyBag

\* C21: at most one position subscription is registered at any time, and
\* every registered watch is the one whose id geoWatchIdRef holds:
\* startGeolocation cancels the previous watch before it registers a new one.
C21_AtMostOneWatch ==
    /\ Cardinality(activeWatches) <= 1
    /\ activeWatches \subseteq {geoWatchIdRef} \ {Null}

\* C21 witness: a start request that found a watch registered and left
\* exactly one, held in geoWatchIdRef.
C21_Witness ==
    /\ lastEvent.op = "start"
    /\ lastEvent.geo[1] # Null
    /\ geoWatchIdRef # Null
    /\ activeWatches = {geoWatchIdRef}

====
